---------------------------- MODULE Spec2Model ----------------------------
(***************************************************************************)
(* Model of the Kaspa transaction analyser: GraphBuilder (graph/builder.py)*)
(* building a transfer graph by bounded depth-first expansion, and         *)
(* GraphAnalyzer (graph/analysis.py) running its detectors over a graph.   *)
(*                                                                         *)
(* Python dicts are TLA+ records / functions with string domains, so that  *)
(* `"amount" in data` is  "amount" \in DOMAIN data.  Amounts are exact     *)
(* integers: the DataSource's raw amounts are multiples of 1e8 Sompi, so   *)
(* the division by the scaling factor is exact.  Timestamps are counted in  *)
(* units of 100 seconds (every timestamp of the model is a multiple of     *)
(* 100 s), which keeps the year-2100 limit within the checker's integers.  *)
(***************************************************************************)
EXTENDS Integers, Sequences, FiniteSets, TLC

VARIABLES gb,     \* the GraphBuilder instance (and the build it is running)
          twin,   \* a second GraphBuilder (SpecTwin, SpecPair)
          an,     \* the GraphAnalyzer instance (SpecAnalyzer)
          ds      \* the DataSource's content, where a run fixes it (SpecLedger)

vars == <<gb, twin, an, ds>>

(***************************************************************************)
(* Bounds of the model.                                                    *)
(***************************************************************************)
Addresses == {"A", "B", "C"}
MaxRecords == 3        \* records the DataSource serves during one build
MaxDepth == 2          \* largest `depth` a build is asked for
MaxAddresses == 3      \* largest `max_addresses` a build is asked for
MaxBuilds == 2         \* builds run on one GraphBuilder
MaxCalls == 3          \* calls made on one GraphAnalyzer

(***************************************************************************)
(* Program constants.                                                      *)
(***************************************************************************)
scaling_factor == 100000000
MaxTimestamp == 41024448     \* 4102444800 s
SmurfingMaxGap == 36         \* 3600 s
ExchangeDegree == 10
ExchangeVolume == 10000
ExchangeTransfers == 20

\* the block times the DataSource reports
BlockTimes == {17000000}
BadBlockTimes == {MaxTimestamp + 1}
\* min_amount of a build: not set (None) or 2 KAS
NoMinAmount == [set |-> FALSE, value |-> 0]
MinAmounts == {NoMinAmount, [set |-> TRUE, value |-> 2]}

(***************************************************************************)
(* Python values.                                                          *)
(***************************************************************************)
\* dict.get(key, default)
Get(d, key, default) == IF key \in DOMAIN d THEN d[key] ELSE default

\* a JSON value that is an object (dict), or one that is not (a string, ...)
Dict(d) == [isdict |-> TRUE, d |-> d]
NonObject == [isdict |-> FALSE, d |-> [garbage |-> TRUE]]

\* a JSON number, and JSON null (Python None)
JNum(n) == [isnum |-> TRUE, n |-> n]
JNull == [isnum |-> FALSE, n |-> 0]

Last(s) == s[Len(s)]
Front(s) == SubSeq(s, 1, Len(s) - 1)
Range(s) == {s[i] : i \in DOMAIN s}

RECURSIVE SumAmounts(_)
SumAmounts(txs) ==
    IF txs = <<>> THEN 0 ELSE txs[1].amount + SumAmounts(Tail(txs))

(***************************************************************************)
(* The graph (networkx DiGraph): nodes and edges in insertion order, each  *)
(* with its attribute dict.                                                *)
(***************************************************************************)
EmptyGraph == [nodes |-> <<>>, attrs |-> <<>>, edges |-> <<>>, data |-> <<>>]

\* the membership test that finds no node
has_node_Never(G, n) == FALSE

has_node(G, n) == n \in DOMAIN G.attrs
has_edge(G, s, t) == <<s, t>> \in DOMAIN G.data

out_edges(G, n) == SelectSeq(G.edges, LAMBDA e : e[1] = n)
in_edges(G, n) == SelectSeq(G.edges, LAMBDA e : e[2] = n)
out_degree(G, n) == Len(out_edges(G, n))
in_degree(G, n) == Len(in_edges(G, n))

\* GraphBuilder._add_node
add_node(G, address, is_start, attributes) ==
    LET node_attrs == [address |-> address,
                       is_start |-> is_start,
                       is_exchange |-> Get(attributes, "is_exchange", FALSE),
                       balance |-> Get(attributes, "balance", 0),
                       total_received |-> 0,
                       total_sent |-> 0,
                       transaction_count |-> Get(attributes, "transactions", JNum(0))]
    IN  IF has_node(G, address)
        THEN [G EXCEPT !.attrs[address] = node_attrs @@ @]
        ELSE [G EXCEPT !.nodes = Append(@, address),
                       !.attrs = (address :> node_attrs) @@ @]

\* the timestamp check without its upper limit
CheckTimestamp_NoUpperLimit(timestamp) ==
    IF timestamp < 0
    THEN [timestamp |-> 0, date |-> "Date inconnue"]
    ELSE [timestamp |-> timestamp, date |-> "%Y-%m-%d %H:%M:%S"]

\* the timestamp check of GraphBuilder._add_edge
CheckTimestamp(timestamp) ==
    IF timestamp < 0 \/ timestamp > MaxTimestamp
    THEN [timestamp |-> 0, date |-> "Date inconnue"]
    ELSE [timestamp |-> timestamp, date |-> "%Y-%m-%d %H:%M:%S"]

\* the merge of a further transaction into an existing edge
\* the merge without the promotion of the transfer the edge holds
MergeEdge_DropsFirst(edge_data, tx) ==
    [transactions |-> Append(Get(edge_data, "transactions", << >>), tx),
     total_amount |-> Get(edge_data, "total_amount", 0) + tx.amount]

\* the lines 244-273 of _add_edge: the data of an edge after one more transfer
MergeEdge(edge_data, tx) ==
    LET promoted ==
            IF "transactions" \notin DOMAIN edge_data
            THEN [transactions |->
                     << [txid |-> edge_data.txid,
                         amount |-> edge_data.amount,
                         timestamp |-> edge_data.timestamp,
                         date |-> edge_data.date] >>]
            ELSE edge_data
    IN  [transactions |-> Append(promoted.transactions, tx),
         total_amount |-> Get(promoted, "total_amount", 0) + tx.amount]

\* GraphBuilder._add_edge
add_edge(G, source, target, txid, amount, timestamp) ==
    LET checked == CheckTimestamp(timestamp)
        edge_attrs == [txid |-> txid, amount |-> amount,
                       timestamp |-> checked.timestamp, date |-> checked.date]
        e == <<source, target>>
    IN  IF has_edge(G, source, target)
        THEN [G EXCEPT !.data[e] = MergeEdge(@, edge_attrs)]
        ELSE [G EXCEPT !.edges = Append(@, e),
                       !.data = (e :> edge_attrs) @@ @]

\* the amount of an edge, without the total of an aggregated edge
EdgeAmount_SingleOnly(data) ==
    IF "amount" \in DOMAIN data THEN data.amount ELSE 0

\* the amount _calculate_node_metrics takes from an edge
EdgeAmount(data) ==
    IF "amount" \in DOMAIN data THEN data.amount
    ELSE IF "total_amount" \in DOMAIN data THEN data.total_amount
    ELSE 0

RECURSIVE SumEdges(_, _)
SumEdges(G, es) ==
    IF es = <<>> THEN 0 ELSE EdgeAmount(G.data[es[1]]) + SumEdges(G, Tail(es))

\* the graph left without its metrics
calculate_node_metrics_Skipped(G) == G

\* GraphBuilder._calculate_node_metrics
\* the metrics with the inbound edges counted as sent too
calculate_node_metrics_SentCountsBoth(G) ==
    [G EXCEPT !.attrs =
        [n \in DOMAIN G.attrs |->
            [total_sent |-> SumEdges(G, out_edges(G, n)) + SumEdges(G, in_edges(G, n)),
             total_received |-> SumEdges(G, in_edges(G, n)),
             in_degree |-> in_degree(G, n),
             out_degree |-> out_degree(G, n)] @@ G.attrs[n]]]

calculate_node_metrics(G) ==
    [G EXCEPT !.attrs =
        [n \in DOMAIN G.attrs |->
            [total_sent |-> SumEdges(G, out_edges(G, n)),
             total_received |-> SumEdges(G, in_edges(G, n)),
             in_degree |-> in_degree(G, n),
             out_degree |-> out_degree(G, n)] @@ G.attrs[n]]]


(***************************************************************************)
(* The DataSource (kaspa/client.py).  get_address_transactions answers     *)
(* with a list of records; a build reads the list of an address once, so   *)
(* the list is drawn record by record as the build iterates over it.  A    *)
(* record with several outputs behaves as that many records with one       *)
(* output each, so each record drawn carries at most one output.           *)
(***************************************************************************)
Destinations == Addresses \cup {""}

\* records in the documented shape: 2 KAS to any address, or 1 KAS to B
PlainRecords ==
    { Dict([transaction_id |-> "tx1", block_time |-> bt,
            outputs |-> << Dict([address |-> d, amount |-> 2 * scaling_factor]) >>]) :
        d \in Addresses, bt \in BlockTimes }
    \cup
    { Dict([transaction_id |-> "tx1", block_time |-> bt,
            outputs |-> << Dict([address |-> "B", amount |-> 1 * scaling_factor]) >>]) :
        bt \in BlockTimes }
\* records whose output has no destination address
NoAddressRecords ==
    { Dict([transaction_id |-> "tx1", block_time |-> bt,
            outputs |-> << Dict([address |-> "", amount |-> 2 * scaling_factor]) >>]) :
        bt \in BlockTimes }
\* records whose block time is out of range
BadTimeRecords ==
    { Dict([transaction_id |-> "tx2", block_time |-> bt,
            outputs |-> << Dict([address |-> "B", amount |-> 2 * scaling_factor]) >>]) :
        bt \in BadBlockTimes }
\* records under the alternate field names
AltRecords ==
    { Dict([txid |-> "tx3", timestamp |-> bt,
            vout |-> << Dict([script_public_key_address |-> "C",
                              value |-> 2 * scaling_factor]) >>]) :
        bt \in BlockTimes }
\* malformed records: not an object; an output that is not an object; no
\* outputs; a list field whose elements have no recognizable key
MalformedRecords ==
    { NonObject,
      Dict([transaction_id |-> "tx4", block_time |-> 0, outputs |-> << NonObject >>]),
      Dict([transaction_id |-> "tx4", block_time |-> 0]),
      Dict([transaction_id |-> "tx4", block_time |-> 0, outputs |-> << >>]),
      Dict([transaction_id |-> "tx4", block_time |-> 0,
            vout |-> << Dict([script |-> "x"]) >>]) }

Records ==
    PlainRecords \cup NoAddressRecords \cup BadTimeRecords \cup AltRecords
        \cup MalformedRecords

\* a DataSource whose content no run has fixed: `ledger` gives the list of
\* records of each address, `down` the addresses whose info lookup fails
NoDataSource == [ledger |-> << >>, down |-> {}]

\* get_address_info: it raises, or it answers with the address's info
InfoFailure == [ok |-> FALSE, info |-> [error |-> "unreachable"]]
InfoAnswers == { [ok |-> TRUE,
                  info |-> [balance |-> 5, transactions |-> JNum(7), is_exchange |-> TRUE]] }
InfoResponses == InfoAnswers \cup {InfoFailure}

(***************************************************************************)
(* GraphBuilder.  `visited` and `stack` are the visited_addresses set and  *)
(* the frames of _build_graph_recursive of the build in progress: a frame  *)
(* is the address being expanded, its depth and the number of records of   *)
(* its list consumed so far.  tx_calls, records_read, info_calls,          *)
(* info_failed and limit_hit record the DataSource calls of the current    *)
(* build, last_skip why the last record read was discarded ("" when it was *)
(* kept), and accepted the transfers handed to _add_edge, by edge and in   *)
(* the order of arrival.                                                   *)
(***************************************************************************)
NewBuilder ==
    [pc |-> "idle", error |-> "",
     graph |-> EmptyGraph, address_info_cache |-> <<>>,
     visited |-> {}, stack |-> <<>>,
     start |-> "", max_depth |-> 0, min_amount |-> NoMinAmount, max_addresses |-> 0,
     builds |-> 0,
     tx_calls |-> <<>>, records_read |-> 0,
     info_calls |-> {}, info_failed |-> {}, limit_hit |-> FALSE, last_skip |-> "",
     accepted |-> << >>]

Raise(B, err) == [B EXCEPT !.pc = "raised", !.error = err, !.stack = <<>>]

\* _get_address_info without its try/except: the DataSource's failure
\* leaves the call by an exception
get_address_info_Unguarded(B, address, resp) ==
    IF address \in DOMAIN B.address_info_cache
    THEN [b |-> B, info |-> B.address_info_cache[address], returned |-> TRUE]
    ELSE IF resp.ok
    THEN [b |-> [B EXCEPT !.address_info_cache = (address :> resp.info) @@ @,
                          !.info_calls = @ \cup {address}],
          info |-> resp.info, returned |-> TRUE]
    ELSE [b |-> [B EXCEPT !.info_calls = @ \cup {address},
                          !.info_failed = @ \cup {address}],
          info |-> << >>, returned |-> FALSE]

\* GraphBuilder._get_address_info: the builder after the call, the info
\* returned, and whether the call returned (rather than raised)
get_address_info(B, address, resp) ==
    IF address \in DOMAIN B.address_info_cache
    THEN [b |-> B, info |-> B.address_info_cache[address], returned |-> TRUE]
    ELSE IF resp.ok
    THEN [b |-> [B EXCEPT !.address_info_cache = (address :> resp.info) @@ @,
                          !.info_calls = @ \cup {address}],
          info |-> resp.info, returned |-> TRUE]
    ELSE [b |-> [B EXCEPT !.info_calls = @ \cup {address},
                          !.info_failed = @ \cup {address}],
          info |-> [balance |-> 0, transactions |-> JNum(0), is_exchange |-> FALSE],
          returned |-> TRUE]

\* the first guard with its depth test off by one
DepthReachedOrVisited_DepthOffByOne(B, address, current_depth) ==
    current_depth > B.max_depth \/ address \in B.visited

\* the first guard without its visited test
DepthReachedOrVisited_NoVisitedTest(B, address, current_depth) ==
    current_depth >= B.max_depth

\* the first guard of _build_graph_recursive (line 96)
DepthReachedOrVisited(B, address, current_depth) ==
    current_depth >= B.max_depth \/ address \in B.visited

\* the second guard with its test off by one
LimitReached_OffByOne(B) ==
    Cardinality(B.visited) > B.max_addresses

\* the second guard of _build_graph_recursive (line 99)
LimitReached(B) ==
    Cardinality(B.visited) >= B.max_addresses

\* the entry of _build_graph_recursive (lines 96-105): return at once, or
\* mark the address visited and fetch its transactions
build_graph_recursive(B, address, current_depth) ==
    IF DepthReachedOrVisited(B, address, current_depth) THEN B
    ELSE IF LimitReached(B) THEN [B EXCEPT !.limit_hit = TRUE]
    ELSE [B EXCEPT !.visited = @ \cup {address},
                   !.stack = Append(@, [address |-> address,
                                        depth |-> current_depth, n |-> 0]),
                   !.tx_calls = Append(@, <<address, current_depth>>)]

\* the outputs of a record: its `outputs`, else the first non-empty list of
\* objects with a recognizable key
ListKeys == {"vout"}
ProbeOutputs(t) ==
    IF "outputs" \in DOMAIN t THEN t.outputs
    ELSE IF \E k \in ListKeys \cap DOMAIN t :
              /\ Len(t[k]) > 0
              /\ t[k][1].isdict
              /\ {"address", "amount", "value"} \cap DOMAIN t[k][1].d # {}
    THEN t[CHOOSE k \in ListKeys \cap DOMAIN t : TRUE]
    ELSE << >>

\* what lines 115-141 read from a record: it raises (the record or its
\* output is no object), it has no output, or it has an output
ParseRecord(tx) ==
    IF ~tx.isdict THEN [kind |-> "raises"]
    ELSE
    LET t == tx.d
        outputs == ProbeOutputs(t)
    IN
    IF Len(outputs) = 0 THEN [kind |-> "empty"]
    ELSE IF ~outputs[1].isdict THEN [kind |-> "raises"]
    ELSE
    LET o == outputs[1].d
        amount_raw == Get(o, "amount", Get(o, "value", 0))
    IN  [kind |-> "output",
         tx_id |-> Get(t, "transaction_id", Get(t, "txid", "")),
         output_address |-> Get(o, "address", Get(o, "script_public_key_address", "")),
         amount |-> amount_raw \div scaling_factor,
         timestamp |-> Get(t, "block_time", Get(t, "timestamp", 0))]

\* the filters without the test for a transfer to the address itself
Qualifies_NoSelfTest(B, address, p) ==
    /\ p.kind = "output"
    /\ p.output_address # ""
    /\ ~(B.min_amount.set /\ p.amount < B.min_amount.value)

\* the filters without the min_amount test
Qualifies_NoMinAmount(B, address, p) ==
    /\ p.kind = "output"
    /\ ~(p.output_address = "" \/ p.output_address = address)

\* the filters of lines 143-148: is the output kept
Qualifies(B, address, p) ==
    /\ p.kind = "output"
    /\ ~(p.output_address = "" \/ p.output_address = address)
    /\ ~(B.min_amount.set /\ p.amount < B.min_amount.value)

\* which `continue` (or empty output list) discards the output
SkipReason(B, address, p) ==
    IF p.kind # "output" THEN "no_output"
    ELSE IF p.output_address = "" THEN "no_address"
    ELSE IF p.output_address = address THEN "self"
    ELSE "below_min"

\* the body of the loops of _build_graph_recursive (lines 113-176) for the
\* next record tx of the address on top of the stack
ProcessRecord(B, tx, resp) ==
    LET f == Last(B.stack)
        B1 == [B EXCEPT !.stack[Len(B.stack)].n = @ + 1, !.records_read = @ + 1,
                        !.last_skip = ""]
        p == ParseRecord(tx)
    IN
    IF p.kind = "raises" THEN Raise(B1, "AttributeError")
    ELSE IF ~Qualifies(B, f.address, p)
    THEN [B1 EXCEPT !.last_skip = SkipReason(B, f.address, p)]
    ELSE
    LET fresh == ~has_node(B1.graph, p.output_address)
        r == IF fresh
             THEN get_address_info(B1, p.output_address, resp)
             ELSE [b |-> B1, info |-> << >>, returned |-> TRUE]
        G1 == IF fresh
              THEN add_node(r.b.graph, p.output_address, FALSE, r.info)
              ELSE r.b.graph
        G2 == add_edge(G1, f.address, p.output_address, p.tx_id, p.amount, p.timestamp)
        e == <<f.address, p.output_address>>
        arrived == [txid |-> p.tx_id, amount |-> p.amount, timestamp |-> p.timestamp]
    IN
    IF ~r.returned THEN Raise(r.b, "Exception")
    ELSE build_graph_recursive(
             [r.b EXCEPT !.graph = G2,
                         !.accepted = (e :> Append(Get(@, e, << >>), arrived)) @@ @],
             p.output_address, f.depth + 1)

\* build_transaction_graph up to the first fetch (lines 47-69)
BeginBuild(B, start_address, depth, min_amount, max_addresses, resp) ==
    LET B0 == [B EXCEPT !.pc = "building", !.error = "",
                        !.graph = EmptyGraph, !.visited = {}, !.stack = << >>,
                        !.start = start_address, !.max_depth = depth,
                        !.min_amount = min_amount, !.max_addresses = max_addresses,
                        !.builds = @ + 1,
                        !.tx_calls = << >>, !.records_read = 0,
                        !.info_calls = {}, !.info_failed = {},
                        !.limit_hit = FALSE, !.last_skip = "", !.accepted = << >>]
        r == get_address_info(B0, start_address, resp)
        G == add_node(r.b.graph, start_address, TRUE, r.info)
    IN  IF ~r.returned THEN Raise(r.b, "Exception")
        ELSE build_graph_recursive([r.b EXCEPT !.graph = G], start_address, 0)

\* the end of a record list: the frame on top of the stack returns
ReturnFrame(B) == [B EXCEPT !.stack = Front(@)]

\* build_transaction_graph after the traversal (lines 71-74)
EndBuild(B) == [B EXCEPT !.graph = calculate_node_metrics(@), !.pc = "done"]

(***************************************************************************)
(* GraphAnalyzer (graph/analysis.py).  Confidences are in hundredths.      *)
(* numpy's std / mean over amounts xs is compared with a threshold c/10    *)
(* exactly: with n = len, S = sum, Q = sum of squares, std/mean < c/10 is  *)
(* 100 * (n*Q - S*S) < c*c * S*S when S > 0; when S = 0 the quotient is    *)
(* nan and every comparison with it is false.                              *)
(***************************************************************************)
RECURSIVE Sum(_)
Sum(xs) == IF xs = << >> THEN 0 ELSE xs[1] + Sum(Tail(xs))

RECURSIVE SumSquares(_)
SumSquares(xs) == IF xs = << >> THEN 0 ELSE xs[1] * xs[1] + SumSquares(Tail(xs))

RECURSIVE Max(_)
Max(xs) == IF Len(xs) = 1 THEN xs[1]
           ELSE LET m == Max(Tail(xs)) IN IF xs[1] >= m THEN xs[1] ELSE m

\* the comparison without the standard deviation
RelStdBelow_MeanOnly(xs, c) == Sum(xs) > 0

\* np.std(xs) / np.mean(xs) < c / 10
RelStdBelow(xs, c) ==
    /\ Sum(xs) > 0
    /\ 100 * (Len(xs) * SumSquares(xs) - Sum(xs) * Sum(xs)) < c * c * Sum(xs) * Sum(xs)

\* list.sort(key=lambda x: x["timestamp"]): a stable sort
RECURSIVE InsertByTimestamp(_, _)
InsertByTimestamp(sorted, x) ==
    IF sorted = << >> THEN << x >>
    ELSE IF Last(sorted).timestamp <= x.timestamp THEN Append(sorted, x)
    ELSE Append(InsertByTimestamp(Front(sorted), x), Last(sorted))

RECURSIVE SortByTimestamp(_)
SortByTimestamp(xs) ==
    IF xs = << >> THEN << >>
    ELSE InsertByTimestamp(SortByTimestamp(Front(xs)), Last(xs))

RECURSIVE Concat(_)
Concat(seqs) == IF seqs = << >> THEN << >> ELSE seqs[1] \o Concat(Tail(seqs))

Map(xs, Op(_)) == [i \in DOMAIN xs |-> Op(xs[i])]

successors(G, n) == Map(out_edges(G, n), LAMBDA e : e[2])

\* GraphAnalyzer.__init__; `calls`, `last_call`, the values returned by the
\* last call, and what nx.simple_cycles did in the last detect_patterns, are
\* recorded for the properties
NewAnalyzer(G) ==
    [pc |-> "ready", graph |-> G, suspicious_patterns |-> << >>,
     exchanges |-> {}, metrics |-> << >>, returned_nodes |-> << >>,
     returned_patterns |-> << >>, returned_exchanges |-> {},
     calls |-> 0, last_call |-> "",
     cycle_starts |-> << >>, enumeration_raised |-> FALSE]

\* GraphAnalyzer._find_linear_paths: the one path it records from a node
\* the search with its depth test off by one
RECURSIVE find_linear_paths_DepthOffByOne(_, _, _, _, _)
find_linear_paths_DepthOffByOne(G, current_node, current_path, all_paths, max_depth) ==
    LET path == Append(current_path, current_node)
        succ == successors(G, current_node)
    IN  IF Len(path) > max_depth + 1 THEN Append(all_paths, path)
        ELSE IF Len(succ) = 0 THEN Append(all_paths, path)
        ELSE IF Len(succ) > 1 THEN Append(all_paths, path)
        ELSE IF succ[1] \notin Range(path)
             THEN find_linear_paths_DepthOffByOne(G, succ[1], path, all_paths, max_depth)
             ELSE Append(all_paths, path)

\* GraphAnalyzer._find_linear_paths: all_paths after the call
RECURSIVE find_linear_paths(_, _, _, _, _)
find_linear_paths(G, current_node, current_path, all_paths, max_depth) ==
    LET path == Append(current_path, current_node)
        succ == successors(G, current_node)
    IN  IF Len(path) > max_depth THEN Append(all_paths, path)
        ELSE IF Len(succ) = 0 THEN Append(all_paths, path)
        ELSE IF Len(succ) > 1 THEN Append(all_paths, path)
        ELSE IF succ[1] \notin Range(path)
             THEN find_linear_paths(G, succ[1], path, all_paths, max_depth)
             ELSE Append(all_paths, path)

\* the per-hop amounts of a path (lines 153-163)
HopAmounts(G, path) ==
    LET hops == [i \in 1..(Len(path) - 1) |-> <<path[i], path[i + 1]>>]
        known == SelectSeq(hops, LAMBDA e :
                    /\ e \in DOMAIN G.data
                    /\ {"amount", "total_amount"} \cap DOMAIN G.data[e] # {})
    IN  Map(known, LAMBDA e : EdgeAmount(G.data[e]))

\* GraphAnalyzer._detect_layering: the findings it appends
detect_layering(G) ==
    LET Finding(path) ==
            LET amounts == HopAmounts(G, path)
            IN  IF Len(path) >= 3 /\ Len(amounts) >= 2 /\ RelStdBelow(amounts, 2)
                THEN << [type |-> "layering", path |-> path,
                         confidence |-> IF RelStdBelow(amounts, 1) THEN 80 ELSE 60,
                         details |-> [amounts |-> amounts]] >>
                ELSE << >>
        FindingsFrom(node) ==
            Concat(Map(find_linear_paths(G, node, << >>, << >>, 5), Finding))
    IN  Concat(Map(G.nodes, FindingsFrom))

\* the transfers of an edge as the detectors flatten them (lines 242-254)
FlattenEdge(G, e, tag) ==
    LET data == G.data[e]
    IN  IF "amount" \in DOMAIN data
        THEN << [target |-> e[2], type |-> tag,
                 amount |-> data.amount, timestamp |-> Get(data, "timestamp", 0)] >>
        ELSE IF "transactions" \in DOMAIN data
        THEN Map(data.transactions, LAMBDA tx :
                 [target |-> e[2], type |-> tag,
                  amount |-> Get(tx, "amount", 0), timestamp |-> Get(tx, "timestamp", 0)])
        ELSE << >>

\* the gaps taken for nil
Gaps_Ignored(txs) == [i \in 1..(Len(txs) - 1) |-> 0]

Gaps(txs) == [i \in 1..(Len(txs) - 1) |-> txs[i + 1].timestamp - txs[i].timestamp]

\* GraphAnalyzer._detect_smurfing: the findings it appends
detect_smurfing(G) ==
    LET Finding(node) ==
            LET outgoing_edges == out_edges(G, node)
                transactions ==
                    SortByTimestamp(Concat(Map(outgoing_edges,
                                               LAMBDA e : FlattenEdge(G, e, "out"))))
                amounts == Map(transactions, LAMBDA tx : tx.amount)
            IN  IF /\ Len(outgoing_edges) >= 3
                   /\ Len(transactions) >= 3
                   /\ Max(Gaps(transactions)) < SmurfingMaxGap
                   /\ RelStdBelow(amounts, 3)
                THEN << [type |-> "smurfing", address |-> node,
                         targets |-> Map(transactions, LAMBDA tx : tx.target),
                         confidence |-> 70,
                         details |-> [transaction_count |-> Len(transactions),
                                      avg_amount |-> [sum |-> Sum(amounts),
                                                      count |-> Len(amounts)],
                                      max_time_interval |-> Max(Gaps(transactions))]] >>
                ELSE << >>
    IN  Concat(Map(G.nodes, Finding))

\* nx.simple_cycles: the simple cycles through `root` whose other nodes were
\* inserted after it, each starting at `root`
RECURSIVE CyclesThrough(_, _, _)
CyclesThrough(G, path, root) ==
    LET Index(n) == CHOOSE i \in DOMAIN G.nodes : G.nodes[i] = n
        closing == IF has_edge(G, Last(path), root) THEN << path >> ELSE << >>
        further == SelectSeq(successors(G, Last(path)), LAMBDA m :
                       m \notin Range(path) /\ Index(m) > Index(root))
    IN  closing \o Concat(Map(further, LAMBDA m : CyclesThrough(G, Append(path, m), root)))

simple_cycles(G) == Concat(Map(G.nodes, LAMBDA n : CyclesThrough(G, << n >>, n)))

\* the cycles _detect_cycling examines (line 295)
LongCycles(G) == SelectSeq(simple_cycles(G), LAMBDA cycle : Len(cycle) >= 3)

\* nx.simple_cycles does not say at which of its nodes a cycle starts: the
\* starting nodes it may choose, one offset per examined cycle
Rotations(G) ==
    {r \in [DOMAIN LongCycles(G) -> 0..(Len(G.nodes) - 1)] :
        \A i \in DOMAIN r : r[i] < Len(LongCycles(G)[i])}

Rotate(cycle, k) == [i \in DOMAIN cycle |-> cycle[((i - 1 + k) % Len(cycle)) + 1]]

\* max(transactions, key=timestamp): the first of the most recent ones
LatestTx(transactions) ==
    LET latest == Max(Map(transactions, LAMBDA tx : Get(tx, "timestamp", 0)))
        first == CHOOSE i \in DOMAIN transactions :
                    /\ Get(transactions[i], "timestamp", 0) = latest
                    /\ \A j \in 1..(i - 1) : Get(transactions[j], "timestamp", 0) # latest
    IN  transactions[first]

\* the amount and timestamp _detect_cycling takes from each hop (lines 300-313)
CycleHops(G, cycle) ==
    LET hops == [i \in DOMAIN cycle |-> <<cycle[i], cycle[(i % Len(cycle)) + 1]>>]
        known == SelectSeq(hops, LAMBDA e :
                    /\ e \in DOMAIN G.data
                    /\ {"amount", "transactions"} \cap DOMAIN G.data[e] # {})
    IN  Map(known, LAMBDA e :
            LET data == G.data[e]
            IN  IF "amount" \in DOMAIN data
                THEN [amount |-> data.amount, timestamp |-> Get(data, "timestamp", 0)]
                ELSE [amount |-> Get(LatestTx(data.transactions), "amount", 0),
                      timestamp |-> Get(LatestTx(data.transactions), "timestamp", 0)])

IsSorted(xs) == \A i \in 1..(Len(xs) - 1) : xs[i] <= xs[i + 1]

\* GraphAnalyzer._detect_cycling: the findings it appends, when simple_cycles
\* starts the cycles at the offsets r; when the enumeration raises, the except
\* clause swallows the exception
detect_cycling(G, r, enumeration_raises) ==
    LET Finding(i) ==
            LET cycle == Rotate(LongCycles(G)[i], r[i])
                hops == CycleHops(G, cycle)
                amounts == Map(hops, LAMBDA h : h.amount)
                timestamps == Map(hops, LAMBDA h : h.timestamp)
            IN  IF /\ Len(amounts) = Len(cycle)
                   /\ RelStdBelow(amounts, 3)
                   /\ IsSorted(timestamps)
                THEN << [type |-> "cycling", cycle |-> cycle, confidence |-> 90,
                         details |-> [amounts |-> amounts,
                                      timestamps |-> timestamps]] >>
                ELSE << >>
    IN  IF enumeration_raises THEN << >>
        ELSE Concat([i \in DOMAIN LongCycles(G) |-> Finding(i)])

\* the clusters of _detect_sudden_activity (lines 389-404); `total` is the sum
\* of the gaps, so that  gap < mean_diff / 2  is  2 * (n - 1) * gap < total
\* the clustering without the test of the gap: one cluster of everything
Clusters_GapIgnored(transactions, i, current_cluster, total) ==
    IF Len(transactions) >= 3 THEN << transactions >> ELSE << >>

\* the clusters of lines 390-405: `total` is the sum of the time differences
RECURSIVE Clusters(_, _, _, _)
Clusters(transactions, i, current_cluster, total) ==
    LET closed == IF Len(current_cluster) >= 3 THEN << current_cluster >> ELSE << >>
    IN  IF i > Len(transactions) THEN closed
        ELSE IF 2 * (Len(transactions) - 1)
                  * (transactions[i].timestamp - transactions[i - 1].timestamp) < total
        THEN Clusters(transactions, i + 1, Append(current_cluster, transactions[i]), total)
        ELSE closed \o Clusters(transactions, i + 1, << transactions[i] >>, total)

\* the transfers of an edge as _detect_sudden_activity flattens them
FlattenTimed(G, e, tag) ==
    LET data == G.data[e]
    IN  IF "timestamp" \in DOMAIN data
        THEN << [type |-> tag, timestamp |-> data.timestamp,
                 amount |-> Get(data, "amount", 0)] >>
        ELSE IF "transactions" \in DOMAIN data
        THEN Map(data.transactions, LAMBDA tx :
                 [type |-> tag, timestamp |-> Get(tx, "timestamp", 0),
                  amount |-> Get(tx, "amount", 0)])
        ELSE << >>

\* the findings _detect_sudden_activity appends for one node
SuddenActivityOf(G, node) ==
    LET transactions ==
            SortByTimestamp(
                Concat(Map(in_edges(G, node), LAMBDA e : FlattenTimed(G, e, "in")))
                \o Concat(Map(out_edges(G, node), LAMBDA e : FlattenTimed(G, e, "out"))))
        Volume(cluster, tag) ==
            Sum(Map(SelectSeq(cluster, LAMBDA tx : tx.type = tag), LAMBDA tx : tx.amount))
        Finding(cluster) ==
            LET in_volume == Volume(cluster, "in")
                out_volume == Volume(cluster, "out")
                lo == IF in_volume <= out_volume THEN in_volume ELSE out_volume
                hi == IF in_volume <= out_volume THEN out_volume ELSE in_volume
            IN  IF in_volume > 0 /\ out_volume > 0 /\ 10 * lo > 8 * hi
                THEN << [type |-> "sudden_activity", address |-> node, confidence |-> 75,
                         details |-> [cluster_size |-> Len(cluster),
                                      in_volume |-> in_volume,
                                      out_volume |-> out_volume,
                                      start_time |-> cluster[1].timestamp,
                                      end_time |-> Last(cluster).timestamp]] >>
                ELSE << >>
    IN  IF Get(G.attrs[node], "transaction_count", JNum(0)).n < 5 THEN << >>
        ELSE IF Len(transactions) < 5 THEN << >>
        ELSE Concat(Map(Clusters(transactions, 2, << transactions[1] >>,
                                 Last(transactions).timestamp - transactions[1].timestamp),
                        Finding))

\* GraphAnalyzer._detect_sudden_activity: the findings it appends, and whether
\* it raises: comparing a transaction_count that is not a number with 5 is a
\* TypeError (line 338), which ends the loop over the nodes
detect_sudden_activity(G) ==
    LET bad == {i \in DOMAIN G.nodes :
                   ~Get(G.attrs[G.nodes[i]], "transaction_count", JNum(0)).isnum}
        stop == IF bad = {} THEN Len(G.nodes) + 1
                ELSE CHOOSE i \in bad : \A j \in bad : i <= j
    IN  [raised |-> bad # {},
         findings |-> Concat(Map(SubSeq(G.nodes, 1, stop - 1),
                                 LAMBDA node : SuddenActivityOf(G, node)))]

\* GraphAnalyzer.detect_patterns: only _detect_cycling has a try/except, an
\* exception of another detector leaves detect_patterns
detect_patterns(A, r, enumeration_raises) ==
    LET sudden == detect_sudden_activity(A.graph)
        found == detect_layering(A.graph)
                 \o detect_smurfing(A.graph)
                 \o detect_cycling(A.graph, r, enumeration_raises)
                 \o sudden.findings
    IN  [A EXCEPT !.suspicious_patterns = found,
                  !.pc = IF sudden.raised THEN "raised" ELSE "ready",
                  !.returned_patterns = IF sudden.raised THEN << >> ELSE found,
                  !.last_call = "detect_patterns",
                  !.cycle_starts = r,
                  !.enumeration_raised = enumeration_raises,
                  !.calls = @ + 1]

\* the inbound transfers identify_exchanges counts for a node (lines 113-120)
InboundTransfers(G, node) ==
    Concat(Map(in_edges(G, node), LAMBDA e : FlattenEdge(G, e, "in")))

\* the hub test applied to the known exchanges too
PotentialExchange_KnownToo(G, known, node) ==
    /\ in_degree(G, node) > ExchangeDegree /\ out_degree(G, node) > ExchangeDegree
    /\ Sum(Map(InboundTransfers(G, node), LAMBDA tx : tx.amount)) > ExchangeVolume
    /\ Len(InboundTransfers(G, node)) > ExchangeTransfers

\* the hub test of identify_exchanges (lines 99-123), given the known exchanges
PotentialExchange(G, known, node) ==
    /\ node \notin known
    /\ in_degree(G, node) > ExchangeDegree /\ out_degree(G, node) > ExchangeDegree
    /\ Sum(Map(InboundTransfers(G, node), LAMBDA tx : tx.amount)) > ExchangeVolume
    /\ Len(InboundTransfers(G, node)) > ExchangeTransfers

\* GraphAnalyzer.identify_exchanges
identify_exchanges(A) ==
    LET G == A.graph
        known == {n \in Range(G.nodes) : Get(G.attrs[n], "is_exchange", FALSE)}
        total_volume(node) == Sum(Map(InboundTransfers(G, node), LAMBDA tx : tx.amount))
        transaction_count(node) == Len(InboundTransfers(G, node))
        Potential(node) == PotentialExchange(G, known, node)
        Finding(node) ==
            IF Potential(node)
            THEN << [type |-> "potential_exchange", address |-> node, confidence |-> 70,
                     details |-> [in_degree |-> in_degree(G, node),
                                  out_degree |-> out_degree(G, node),
                                  volume |-> total_volume(node),
                                  transaction_count |-> transaction_count(node)]] >>
            ELSE << >>
    IN  [A EXCEPT !.exchanges = known,
                  !.graph.attrs = [n \in DOMAIN G.attrs |->
                                      IF Potential(n)
                                      THEN [potential_exchange |-> TRUE] @@ G.attrs[n]
                                      ELSE G.attrs[n]],
                  !.suspicious_patterns = @ \o Concat(Map(G.nodes, Finding)),
                  !.returned_exchanges = known,
                  !.last_call = "identify_exchanges",
                  !.calls = @ + 1]

\* the colour export_graph_data gives a node (lines 449-455)
NodeColor(attrs) ==
    IF Get(attrs, "is_exchange", FALSE) THEN "#d62728"
    ELSE IF Get(attrs, "potential_exchange", FALSE) THEN "#ff7f0e"
    ELSE IF Get(attrs, "is_start", FALSE) THEN "#2ca02c"
    ELSE "#1f77b4"

(***************************************************************************)
(* Centrality scores are fractions; a score of a graph G is kept as its    *)
(* numerator over 400 * (n - 1), n being the number of                     *)
(* nodes: in_degree / (n - 1) / 4 is 100 * in_degree units, and a          *)
(* betweenness or eigenvector value of h hundredths, divided by 4, is      *)
(* h * (n - 1) units.  The floor 0.01 of max_centrality is 4 * (n - 1)     *)
(* units.  A node size is the fraction num / den.                          *)
(***************************************************************************)
Spread(G) == IF Len(G.nodes) > 1 THEN Len(G.nodes) - 1 ELSE 1
CentralityFloor(G) == 4 * Spread(G)

\* what networkx answers calculate_centrality: it raises, or gives the
\* i-th node a betweenness plus eigenvector value, in hundredths
LibraryAnswers == {"raises", "zero", "rising", "falling"}
LibraryValue(answer, i) ==
    IF answer = "rising" THEN 10 * i
    ELSE IF answer = "falling" THEN 130 - 10 * i
    ELSE 0

\* GraphAnalyzer.calculate_centrality (lines 27-64)
calculate_centrality(A, answer) ==
    LET G == A.graph
        Index(n) == CHOOSE i \in DOMAIN G.nodes : G.nodes[i] = n
        score(n) == 100 * (in_degree(G, n) + out_degree(G, n))
                    + LibraryValue(answer, Index(n)) * Spread(G)
    IN  [A EXCEPT !.graph.attrs =
                     IF Len(G.nodes) > 1 /\ answer # "raises"
                     THEN [n \in DOMAIN G.attrs |->
                              [centrality_score |-> score(n)]
                              @@ [k \in DOMAIN G.attrs[n] \ {"centrality_score"}
                                     |-> G.attrs[n][k]]]
                     ELSE G.attrs,
                  !.last_call = "calculate_centrality",
                  !.calls = @ + 1]

\* max_centrality taken from the first node only
MaxCentrality_FirstNode(G) ==
    LET c == Get(G.attrs[G.nodes[1]], "centrality_score", 0)
    IN  IF c > CentralityFloor(G) THEN c ELSE CentralityFloor(G)

\* max_centrality of export_graph_data (lines 437-441)
MaxCentrality(G) ==
    Max(<< CentralityFloor(G) >>
        \o Map(G.nodes, LAMBDA n : Get(G.attrs[n], "centrality_score", 0)))

\* size_score (line 446)
NodeSize(G, attrs) ==
    [num |-> 5 * MaxCentrality(G) + 45 * Get(attrs, "centrality_score", 0),
     den |-> MaxCentrality(G)]

\* GraphAnalyzer.export_graph_data: the nodes it returns (id, size, colour)
\* and the metrics it stores
export_graph_data(A) ==
    [A EXCEPT !.returned_nodes =
                  Map(A.graph.nodes,
                      LAMBDA n : [id |-> n,
                                  size |-> NodeSize(A.graph, A.graph.attrs[n]),
                                  color |-> NodeColor(A.graph.attrs[n])]),
              !.metrics = [node_count |-> Len(A.graph.nodes),
                           edge_count |-> Len(A.graph.edges),
                           suspicious_patterns |-> Len(A.suspicious_patterns),
                           exchanges_count |-> Cardinality(A.exchanges),
                           total_volume |-> SumEdges(A.graph, A.graph.edges)],
              !.returned_patterns = A.suspicious_patterns,
              !.last_call = "export_graph_data",
              !.calls = @ + 1]

(***************************************************************************)
(* The steps of a GraphBuilder B (the value of gb, or of twin).            *)
(***************************************************************************)
CanStart(B) == B.pc \in {"idle", "done", "raised"}
CanRead(B) == B.pc = "building" /\ B.stack # << >>
CanFinish(B) == B.pc = "building" /\ B.stack = << >>

\* the builds a caller may ask for
Requests(starts, depths, min_amounts) ==
    [start_address : starts, depth : depths, min_amount : min_amounts,
     max_addresses : 0..MaxAddresses]

Begin(B, req, resp) ==
    BeginBuild(B, req.start_address, req.depth, req.min_amount, req.max_addresses, resp)

(***************************************************************************)
(* Spec: one GraphBuilder running one build, over every DataSource         *)
(* content within the bounds.                                              *)
(***************************************************************************)
Init ==
    /\ gb = NewBuilder
    /\ twin = NewBuilder
    /\ an = NewAnalyzer(EmptyGraph)
    /\ ds = NoDataSource

StartBuild ==
    /\ CanStart(gb)
    /\ gb.builds < 1
    /\ \E req \in Requests({"A"}, 0..MaxDepth, MinAmounts), resp \in InfoResponses :
          gb' = Begin(gb, req, resp)
    /\ UNCHANGED <<twin, an, ds>>

NextRecord ==
    /\ CanRead(gb)
    /\ gb.records_read < MaxRecords
    /\ \E tx \in Records, resp \in InfoResponses :
          gb' = ProcessRecord(gb, tx, resp)
    /\ UNCHANGED <<twin, an, ds>>

EndOfRecords ==
    /\ CanRead(gb)
    /\ gb' = ReturnFrame(gb)
    /\ UNCHANGED <<twin, an, ds>>

FinishBuild ==
    /\ CanFinish(gb)
    /\ gb' = EndBuild(gb)
    /\ UNCHANGED <<twin, an, ds>>

Next == StartBuild \/ NextRecord \/ EndOfRecords \/ FinishBuild

Spec == Init /\ [][Next]_vars

(***************************************************************************)
(* SpecRebuild: one GraphBuilder running up to MaxBuilds builds one after  *)
(* the other, over well-formed records.                                    *)
(***************************************************************************)
Restart ==
    /\ CanStart(gb)
    /\ gb.builds < MaxBuilds
    /\ \E req \in Requests(Addresses, 1..MaxDepth, {NoMinAmount}), resp \in InfoResponses :
          gb' = Begin(gb, req, resp)
    /\ UNCHANGED <<twin, an, ds>>

NextPlainRecord ==
    /\ CanRead(gb)
    /\ gb.records_read < MaxRecords
    /\ \E tx \in PlainRecords, resp \in InfoResponses :
          gb' = ProcessRecord(gb, tx, resp)
    /\ UNCHANGED <<twin, an, ds>>

NextRebuild == Restart \/ NextPlainRecord \/ EndOfRecords \/ FinishBuild

SpecRebuild == Init /\ [][NextRebuild]_vars

(***************************************************************************)
(* SpecTwin: two GraphBuilders run the same build over the same records,   *)
(* step by step; the DataSource may fail gb's get_address_info calls and   *)
(* never fails twin's.                                                     *)
(***************************************************************************)
TwinStart ==
    /\ CanStart(gb) /\ CanStart(twin)
    /\ gb.builds < 1
    /\ \E req \in Requests({"A"}, 0..MaxDepth, MinAmounts),
          resp \in InfoResponses, ans \in InfoAnswers :
          /\ gb' = Begin(gb, req, resp)
          /\ twin' = Begin(twin, req, ans)
          /\ UNCHANGED <<an, ds>>

TwinRecord ==
    /\ CanRead(gb) /\ CanRead(twin)
    /\ gb.records_read < MaxRecords
    /\ \E tx \in Records, resp \in InfoResponses, ans \in InfoAnswers :
          /\ gb' = ProcessRecord(gb, tx, resp)
          /\ twin' = ProcessRecord(twin, tx, ans)
          /\ UNCHANGED <<an, ds>>

TwinEndOfRecords ==
    /\ CanRead(gb) /\ CanRead(twin)
    /\ gb' = ReturnFrame(gb)
    /\ twin' = ReturnFrame(twin)
/\ UNCHANGED <<an, ds>>

TwinFinish ==
    /\ CanFinish(gb) /\ CanFinish(twin)
    /\ gb' = EndBuild(gb)
    /\ twin' = EndBuild(twin)
/\ UNCHANGED <<an, ds>>

NextTwin == TwinStart \/ TwinRecord \/ TwinEndOfRecords \/ TwinFinish

SpecTwin == Init /\ [][NextTwin]_vars

(***************************************************************************)
(* SpecLedger: one GraphBuilder running one build over a DataSource whose  *)
(* content is fixed for the run: the list of transfers of each address     *)
(* (with cycles and converging paths) and the addresses whose info lookup  *)
(* fails.                                                                  *)
(***************************************************************************)
LedgerAddresses == {"A", "B", "C", "D", "E"}
MaxLedgerDepth == 3        \* largest `depth` of a build over a ledger
MaxLedgerAddresses == 5    \* largest `max_addresses` of a build over a ledger

\* the destinations of the transfers of each address, in the order listed
ListsOf ==
    [A |-> {<< >>, <<"B">>, <<"C">>, <<"B", "C">>, <<"C", "B">>},
     B |-> {<< >>, <<"C">>},
     C |-> {<< >>, <<"D">>, <<"D", "A">>, <<"A", "D">>},
     D |-> {<< >>, <<"E">>},
     E |-> {<< >>, <<"A">>}]

Ledgers ==
    {[A |-> a, B |-> b, C |-> c, D |-> d, E |-> e] :
        a \in ListsOf.A, b \in ListsOf.B, c \in ListsOf.C,
        d \in ListsOf.D, e \in ListsOf.E}

DataSources == {[ledger |-> L, down |-> d] : L \in Ledgers, d \in {{}, {"C"}}}

\* the record of a transfer of 2 KAS to `target`
TransferRecord(target) ==
    Dict([transaction_id |-> "tx1", block_time |-> 17000000,
          outputs |-> << Dict([address |-> target, amount |-> 2 * scaling_factor]) >>])

\* what the DataSource D answers get_address_info(address)
InfoOf(D, address) ==
    IF address \in D.down THEN InfoFailure ELSE CHOOSE r \in InfoAnswers : TRUE

\* the list being iterated has a record left
HasNext(B, D) ==
    Last(B.stack).n < Len(D.ledger[Last(B.stack).address])

\* the next step of the build of B over the DataSource D
LedgerStep(B, D) ==
    IF CanRead(B)
    THEN IF HasNext(B, D)
         THEN LET target == D.ledger[Last(B.stack).address][Last(B.stack).n + 1]
              IN  ProcessRecord(B, TransferRecord(target), InfoOf(D, target))
         ELSE ReturnFrame(B)
    ELSE IF CanFinish(B) THEN EndBuild(B)
    ELSE B

LedgerRequests(starts, depths, limits) ==
    [start_address : starts, depth : depths, min_amount : {NoMinAmount},
     max_addresses : limits]

LedgerBegin(B, D, req) == Begin(B, req, InfoOf(D, req.start_address))

InitLedger ==
    /\ gb = NewBuilder
    /\ twin = NewBuilder
    /\ an = NewAnalyzer(EmptyGraph)
    /\ ds \in DataSources

LedgerStart ==
    /\ CanStart(gb)
    /\ gb.builds < 1
    /\ \E req \in LedgerRequests({"A"}, 0..MaxLedgerDepth, 0..MaxLedgerAddresses) :
          gb' = LedgerBegin(gb, ds, req)
    /\ UNCHANGED <<twin, an, ds>>

LedgerRecord ==
    /\ CanRead(gb)
    /\ HasNext(gb, ds)
    /\ gb' = LedgerStep(gb, ds)
    /\ UNCHANGED <<twin, an, ds>>

LedgerEndOfRecords ==
    /\ CanRead(gb)
    /\ ~HasNext(gb, ds)
    /\ gb' = LedgerStep(gb, ds)
    /\ UNCHANGED <<twin, an, ds>>

LedgerFinish ==
    /\ CanFinish(gb)
    /\ gb' = LedgerStep(gb, ds)
    /\ UNCHANGED <<twin, an, ds>>

NextLedger == LedgerStart \/ LedgerRecord \/ LedgerEndOfRecords \/ LedgerFinish

SpecLedger == InitLedger /\ [][NextLedger]_vars

\* the ledgers in which A pays B and C, and B pays C: two paths to C, and a
\* cycle when C or E pays A
ConvergingLedgers ==
    {L \in Ledgers : L.A \in {<<"B", "C">>, <<"C", "B">>} /\ L.B = <<"C">>}

InitConverging ==
    /\ gb = NewBuilder
    /\ twin = NewBuilder
    /\ an = NewAnalyzer(EmptyGraph)
    /\ ds \in {[ledger |-> L, down |-> {}] : L \in ConvergingLedgers}

\* FairSpecLedger: a build over one of these ledgers that runs on (no await
\* of it is left pending for ever)
FairSpecLedger == InitConverging /\ [][NextLedger]_vars /\ WF_vars(NextLedger)

(***************************************************************************)
(* SpecPair: two analysis requests, each with a GraphBuilder of its own    *)
(* (app.py line 91), over one DataSource; their builds are interleaved at  *)
(* every DataSource call.                                                  *)
(***************************************************************************)
\* the two builders holding one address_info_cache between them
AfterOtherStep_SharedCache(own, other) ==
    [own EXCEPT !.address_info_cache = other.address_info_cache]

\* a builder `own` after a step of the builder `other`: graph and cache are
\* attributes of the instance (lines 25-26, 48) and the visited set is a
\* local of the build (line 49), so nothing of `own` changes
AfterOtherStep(own, other) == own

PairRequests == LedgerRequests({"A", "C"}, {MaxLedgerDepth - 1}, {MaxLedgerAddresses})

FirstStarts ==
    /\ CanStart(gb)
    /\ gb.builds < 1
    /\ \E req \in PairRequests :
          /\ gb' = LedgerBegin(gb, ds, req)
          /\ twin' = AfterOtherStep(twin, LedgerBegin(gb, ds, req))
    /\ UNCHANGED <<an, ds>>

FirstSteps ==
    /\ gb.pc = "building"
    /\ gb' = LedgerStep(gb, ds)
    /\ twin' = AfterOtherStep(twin, LedgerStep(gb, ds))
    /\ UNCHANGED <<an, ds>>

SecondStarts ==
    /\ CanStart(twin)
    /\ twin.builds < 1
    /\ \E req \in PairRequests :
          /\ twin' = LedgerBegin(twin, ds, req)
          /\ gb' = AfterOtherStep(gb, LedgerBegin(twin, ds, req))
    /\ UNCHANGED <<an, ds>>

SecondSteps ==
    /\ twin.pc = "building"
    /\ twin' = LedgerStep(twin, ds)
    /\ gb' = AfterOtherStep(gb, LedgerStep(twin, ds))
    /\ UNCHANGED <<an, ds>>

NextPair == FirstStarts \/ FirstSteps \/ SecondStarts \/ SecondSteps

InitPair ==
    /\ gb = NewBuilder
    /\ twin = NewBuilder
    /\ an = NewAnalyzer(EmptyGraph)
    /\ ds \in {[ledger |-> L, down |-> d] : L \in ConvergingLedgers, d \in {{}, {"C"}}}

SpecPair == InitPair /\ [][NextPair]_vars

(***************************************************************************)
(* SpecAnalyzer: one GraphAnalyzer over a graph of one of five families,   *)
(* each built with the GraphBuilder's own _add_node and _add_edge: a       *)
(* three-node cycle, a fan, a chain, a hub with its spokes, and a burst of *)
(* transfers through one node.  Its methods are called in any order, up to *)
(* MaxCalls calls.                                                         *)
(***************************************************************************)
Info(count, is_exchange) ==
    [balance |-> 0, transactions |-> count, is_exchange |-> is_exchange]

\* the model checker evaluates an operator's argument where it is first used:
\* Evaluated(G) has a graph evaluated before more is added to it, which keeps
\* the evaluation of a graph of many edges shallow
Evaluated(G) == Len(G.nodes) >= 0

RECURSIVE AddNodes(_, _)
AddNodes(G, ns) ==
    IF ~Evaluated(G) \/ ns = << >> THEN G
    ELSE AddNodes(add_node(G, ns[1].address, ns[1].is_start, ns[1].info), Tail(ns))

\* the transfers es added in order (first half, then second half)
RECURSIVE AddEdges(_, _)
AddEdges(G, es) ==
    IF ~Evaluated(G) \/ es = << >> THEN G
    ELSE IF Len(es) = 1
    THEN add_edge(G, es[1].source, es[1].target, es[1].txid, es[1].amount, es[1].timestamp)
    ELSE AddEdges(AddEdges(G, SubSeq(es, 1, Len(es) \div 2)),
                  SubSeq(es, Len(es) \div 2 + 1, Len(es)))

Node(address, is_start, info) ==
    [address |-> address, is_start |-> is_start, info |-> info]

Transfer(source, target, txid, amount, timestamp) ==
    [source |-> source, target |-> target, txid |-> txid,
     amount |-> amount, timestamp |-> timestamp]

BuiltGraph(ns, es) == calculate_node_metrics(AddEdges(AddNodes(EmptyGraph, ns), es))

\* A -> B -> C -> A, and possibly a second transfer A -> B
CycleGraph(amounts, timestamps, count, again) ==
    BuiltGraph(<< Node("A", TRUE, Info(count, FALSE)),
                  Node("B", FALSE, Info(JNum(1), FALSE)),
                  Node("C", FALSE, Info(JNum(1), FALSE)) >>,
               << Transfer("A", "B", "t1", amounts[1], timestamps[1]),
                  Transfer("B", "C", "t2", amounts[2], timestamps[2]),
                  Transfer("C", "A", "t3", amounts[3], timestamps[3]) >>
               \o IF again
                  THEN << Transfer("A", "B", "t4", amounts[1], timestamps[1]) >>
                  ELSE << >>)

CycleAmounts == {<<100, 100, 100>>, <<100, 500, 100>>, <<0, 0, 0>>}
CycleTimes == [1..3 -> 1..3]
ChainAmounts == CycleAmounts \cup {<<100, 130, 100>>}

CycleGraphs ==
    {CycleGraph(amounts, timestamps, count, again) :
        amounts \in CycleAmounts, timestamps \in CycleTimes,
        count \in {JNum(2), JNull}, again \in BOOLEAN}

\* A -> B, A -> C, A -> D
FanGraph(amounts, gap) ==
    BuiltGraph(<< Node("A", TRUE, Info(JNum(3), FALSE)),
                  Node("B", FALSE, Info(JNum(1), FALSE)),
                  Node("C", FALSE, Info(JNum(1), FALSE)),
                  Node("D", FALSE, Info(JNum(1), FALSE)) >>,
               << Transfer("A", "B", "t1", amounts[1], 10),
                  Transfer("A", "C", "t2", amounts[2], 10 + gap),
                  Transfer("A", "D", "t3", amounts[3], 10 + 2 * gap) >>)

\* the fan after a second transfer A -> B, which aggregates that edge
AggregatedFanGraph(amounts, gap) ==
    calculate_node_metrics(
        AddEdges(FanGraph(amounts, gap),
                 << Transfer("A", "B", "t4", amounts[1], 10 + gap) >>))

\* 5 minutes and 2.5 hours between transfers, and the two gaps around the limit
FanGaps == {3, SmurfingMaxGap - 1, SmurfingMaxGap, 90}

FanGraphs ==
    {FanGraph(amounts, gap) : amounts \in ChainAmounts, gap \in FanGaps}
    \cup
    {AggregatedFanGraph(amounts, gap) : amounts \in ChainAmounts, gap \in FanGaps}

\* A -> B -> C -> D
ChainGraph(amounts) ==
    BuiltGraph(<< Node("A", TRUE, Info(JNum(1), FALSE)),
                  Node("B", FALSE, Info(JNum(2), FALSE)),
                  Node("C", FALSE, Info(JNum(2), FALSE)),
                  Node("D", FALSE, Info(JNum(1), FALSE)) >>,
               << Transfer("A", "B", "t1", amounts[1], 10),
                  Transfer("B", "C", "t2", amounts[2], 20),
                  Transfer("C", "D", "t3", amounts[3], 30) >>)

ChainGraphs == {ChainGraph(amounts) : amounts \in ChainAmounts}

\* the hub H and its spokes, one more than the degree an exchange must exceed
Spokes == << "N01", "N02", "N03", "N04", "N05", "N06",
             "N07", "N08", "N09", "N10", "N11" >>

\* `inbound` spokes pay the hub `amount`, `transfers` times each, and the hub
\* pays 1 to `outbound` spokes
HubGraph(inbound, outbound, transfers, amount, is_exchange) ==
    BuiltGraph(<< Node("H", TRUE, Info(JNum(40), is_exchange)) >>
               \o [i \in DOMAIN Spokes |-> Node(Spokes[i], FALSE, Info(JNum(1), FALSE))],
               [i \in 1..outbound |-> Transfer("H", Spokes[i], "out", 1, 100 + i)]
               \o Concat([i \in 1..inbound |->
                            [k \in 1..transfers |->
                                Transfer(Spokes[i], "H", "in", amount, 10 * i + k)]]))

HubGraphs ==
    {HubGraph(inbound, outbound, transfers, amount, is_exchange) :
        inbound \in {ExchangeDegree, ExchangeDegree + 1},
        outbound \in {ExchangeDegree, ExchangeDegree + 1},
        transfers \in 1..2, amount \in {400, 500, 1000}, is_exchange \in BOOLEAN}

\* M receives 100 from P and from R and pays `paid` to Q within a short
\* time, and has two transfers much later
BurstGraph(paid, count) ==
    BuiltGraph(<< Node("M", TRUE, Info(count, FALSE)),
                  Node("P", FALSE, Info(JNum(1), FALSE)),
                  Node("Q", FALSE, Info(JNum(1), FALSE)),
                  Node("R", FALSE, Info(JNum(1), FALSE)),
                  Node("S", FALSE, Info(JNum(1), FALSE)) >>,
               << Transfer("M", "Q", "t2", paid, 2),
                  Transfer("M", "S", "t4", 1, 100),
                  Transfer("P", "M", "t1", 100, 1),
                  Transfer("R", "M", "t3", 100, 3),
                  Transfer("S", "M", "t5", 1, 200) >>)

\* M receives 100 from P and from R and pays `paid` to Q within a short
\* time, twice
TwoBurstGraph(paid) ==
    BuiltGraph(<< Node("M", TRUE, Info(JNum(6), FALSE)),
                  Node("P", FALSE, Info(JNum(2), FALSE)),
                  Node("Q", FALSE, Info(JNum(2), FALSE)),
                  Node("R", FALSE, Info(JNum(2), FALSE)) >>,
               << Transfer("P", "M", "t1", 100, 1),
                  Transfer("M", "Q", "t2", paid, 2),
                  Transfer("R", "M", "t3", 100, 3),
                  Transfer("P", "M", "t4", 100, 100),
                  Transfer("M", "Q", "t5", paid, 101),
                  Transfer("R", "M", "t6", 100, 102) >>)

BurstGraphs ==
    {BurstGraph(paid, count) : paid \in {100, 200}, count \in {JNum(4), JNum(5)}}
    \cup {TwoBurstGraph(paid) : paid \in {100, 200}}

\* the first `length` spokes in a chain of transfers of 100, closed into a
\* ring when `ring`
LongChainGraph(length, ring) ==
    BuiltGraph([i \in 1..length |-> Node(Spokes[i], i = 1, Info(JNum(2), FALSE))],
               [i \in 1..(length - 1) |->
                   Transfer(Spokes[i], Spokes[i + 1], "t1", 100, 10 * i)]
               \o IF ring
                  THEN << Transfer(Spokes[length], Spokes[1], "t2", 100, 10 * length) >>
                  ELSE << >>)

\* chains and rings of 4 nodes, and of one node more than a path may hold
LongChainGraphs == {LongChainGraph(length, ring) : length \in {4, 7}, ring \in BOOLEAN}

AnalyzerGraphs ==
    CycleGraphs \cup FanGraphs \cup ChainGraphs \cup LongChainGraphs
        \cup HubGraphs \cup BurstGraphs

CanCall(A) == A.pc = "ready" /\ A.calls < MaxCalls

InitAnalyzer ==
    /\ gb = NewBuilder
    /\ twin = NewBuilder
    /\ an \in {NewAnalyzer(G) : G \in AnalyzerGraphs}
    /\ ds = NoDataSource

DetectPatterns ==
    /\ CanCall(an)
    /\ \E r \in Rotations(an.graph), enumeration_raises \in BOOLEAN :
          an' = detect_patterns(an, r, enumeration_raises)
    /\ UNCHANGED <<gb, twin, ds>>

IdentifyExchanges ==
    /\ CanCall(an)
    /\ an' = identify_exchanges(an)
    /\ UNCHANGED <<gb, twin, ds>>

ExportGraphData ==
    /\ CanCall(an)
    /\ an' = export_graph_data(an)
    /\ UNCHANGED <<gb, twin, ds>>

NextAnalyzer == DetectPatterns \/ IdentifyExchanges \/ ExportGraphData

SpecAnalyzer == InitAnalyzer /\ [][NextAnalyzer]_vars

(***************************************************************************)
(* SpecExport: calculate_centrality and export_graph_data called in any    *)
(* order on one GraphAnalyzer, over the same graphs and the graph of one   *)
(* node.                                                                   *)
(***************************************************************************)
LoneGraph == BuiltGraph(<< Node("A", TRUE, Info(JNum(0), FALSE)) >>, << >>)

InitExport ==
    /\ gb = NewBuilder
    /\ twin = NewBuilder
    /\ an \in {NewAnalyzer(G) : G \in AnalyzerGraphs \cup {LoneGraph}}
    /\ ds = NoDataSource

CalculateCentrality ==
    /\ CanCall(an)
    /\ \E answer \in LibraryAnswers : an' = calculate_centrality(an, answer)
    /\ UNCHANGED <<gb, twin, ds>>

NextExport == CalculateCentrality \/ ExportGraphData

SpecExport == InitExport /\ [][NextExport]_vars

(***************************************************************************)
(* Properties of a build.                                                  *)
(***************************************************************************)
EdgeSet(G) == DOMAIN G.data

\* the transfers an edge holds
Transfers(G, s, t) ==
    IF ~has_edge(G, s, t) THEN << >>
    ELSE IF "transactions" \in DOMAIN G.data[<<s, t>>]
    THEN G.data[<<s, t>>].transactions
    ELSE << G.data[<<s, t>>] >>

\* the nodes joined to n by a directed path of at most k edges
RECURSIVE ReachableWithin(_, _, _)
ReachableWithin(G, n, k) ==
    IF k = 0 THEN {n}
    ELSE LET near == ReachableWithin(G, n, k - 1)
         IN  near \cup {e[2] : e \in {d \in EdgeSet(G) : d[1] \in near}}

NoDuplicates(s) == \A i, j \in DOMAIN s : s[i] = s[j] => i = j

\* the records that carry an output, each with what is read from it
OutputRecords ==
    {r \in {[tx |-> tx, p |-> ParseRecord(tx)] : tx \in Records} : r.p.kind = "output"}

\* C1: whenever an edge carries total_amount, it is the sum of the amounts
\* of the transfers in the edge's list
C1_TotalAmountIsSum ==
    \A e \in EdgeSet(gb.graph) :
        "total_amount" \in DOMAIN gb.graph.data[e]
            => gb.graph.data[e].total_amount = SumAmounts(gb.graph.data[e].transactions)

\* C2: at every point of a build the visited set (the addresses whose
\* transfers were fetched) holds at most max_addresses addresses
C2_VisitedWithinMax ==
    /\ Cardinality(gb.visited) <= gb.max_addresses
    /\ Len(gb.tx_calls) <= gb.max_addresses

\* C2 witness: an expansion was refused because the visited set was full
C2_Witness ==
    /\ gb.limit_hit
    /\ gb.max_addresses >= 1
    /\ Cardinality(gb.visited) = gb.max_addresses

\* C3: an address is expanded only at a depth below `depth`, so every node
\* is within `depth` edges of the start address; depth = 0 expands nothing
C3_ExpansionWithinDepth ==
    /\ \A i \in DOMAIN gb.tx_calls : gb.tx_calls[i][2] < gb.max_depth
    /\ Range(gb.graph.nodes) \subseteq ReachableWithin(gb.graph, gb.start, gb.max_depth)
    /\ (gb.max_depth = 0 => gb.tx_calls = << >> /\ gb.visited = {})

\* C3 witness: a finished build that left a node at `depth` edges from the
\* start unexpanded, though the visited set was never full
C3_Witness ==
    /\ gb.pc = "done"
    /\ gb.max_depth = MaxDepth
    /\ ~gb.limit_hit
    /\ \E n \in Range(gb.graph.nodes) :
           /\ n \notin gb.visited
           /\ n \notin ReachableWithin(gb.graph, gb.start, gb.max_depth - 1)

\* C4: each address is expanded at most once in a build; a qualifying
\* transfer to an address already expanded still adds its transfer to the
\* edge and expands nothing
C4_ExpandedOnce ==
    /\ NoDuplicates([i \in DOMAIN gb.tx_calls |-> gb.tx_calls[i][1]])
    /\ CanRead(gb) =>
         \A r \in OutputRecords :
            LET p == r.p
                source == Last(gb.stack).address
            IN  (Qualifies(gb, source, p) /\ p.output_address \in gb.visited)
                => \A resp \in InfoResponses :
                      LET after == ProcessRecord(gb, r.tx, resp)
                      IN  /\ Len(Transfers(after.graph, source, p.output_address))
                               = Len(Transfers(gb.graph, source, p.output_address)) + 1
                          /\ after.tx_calls = gb.tx_calls
                          /\ after.visited = gb.visited
                          /\ Len(after.stack) = Len(gb.stack)

\* C4 witness: a finished build holds an edge back into the start address,
\* which was expanded first
C4_Witness ==
    /\ gb.pc = "done"
    /\ gb.start \in gb.visited
    /\ \E e \in EdgeSet(gb.graph) : e[2] = gb.start

\* C8: the address-info cache holds only what the current build fetched
\* from the DataSource (every build starts with an empty cache)
C8_CacheOfThisBuild ==
    DOMAIN gb.address_info_cache \subseteq gb.info_calls

\* C9: a malformed record is skipped, it never makes the build raise
C9_MalformedSkipped == gb.pc # "raised"

\* the two builders are at the same point of the same traversal
SameTraversal(B1, B2) ==
    /\ B1.pc = B2.pc
    /\ B1.graph.nodes = B2.graph.nodes
    /\ B1.graph.edges = B2.graph.edges
    /\ B1.graph.data = B2.graph.data
    /\ B1.visited = B2.visited
    /\ B1.stack = B2.stack
    /\ B1.tx_calls = B2.tx_calls

\* C10: a failing get_address_info does not abort the build; the address
\* becomes a node with balance 0, transaction_count 0, is_exchange false,
\* and the traversal is that of a build whose lookups all succeed
C10_InfoFailureTolerated ==
    /\ gb.error # "Exception"
    /\ \A a \in gb.info_failed :
           /\ has_node(gb.graph, a)
           /\ gb.graph.attrs[a].balance = 0
           /\ gb.graph.attrs[a].transaction_count = JNum(0)
           /\ gb.graph.attrs[a].is_exchange = FALSE
    /\ SameTraversal(gb, twin)

\* C10 witness: a finished build with two edges or more in which the lookup
\* of an address failed and the address was expanded all the same
C10_Witness ==
    /\ gb.pc = "done"
    /\ Len(gb.graph.edges) >= 2
    /\ \E a \in gb.info_failed : a \in gb.visited /\ a # gb.start


\* the builder has the same graph and has made the same DataSource calls
SameGraphAndCalls(B1, B2) ==
    /\ B1.graph = B2.graph
    /\ B1.visited = B2.visited
    /\ B1.tx_calls = B2.tx_calls
    /\ B1.info_calls = B2.info_calls
    /\ B1.address_info_cache = B2.address_info_cache
    /\ Len(B1.stack) = Len(B2.stack)

\* the step reads one record and discards its output for one of `reasons`
Discards(reasons) ==
    /\ gb'.records_read = gb.records_read + 1
    /\ gb'.last_skip \in reasons

\* C15: the graph never has a self-loop: an output whose destination is the
\* address being expanded, or is empty, adds no edge and no node.
C15_NoSelfLoop ==
    /\ [](/\ \A e \in EdgeSet(gb.graph) : e[1] # e[2]
          /\ \A i \in DOMAIN gb.graph.edges :
                 gb.graph.edges[i][1] # gb.graph.edges[i][2]
          /\ "" \notin Range(gb.graph.nodes))
    /\ [][Discards({"self", "no_address"}) => SameGraphAndCalls(gb', gb)]_vars

\* C15 witness: the build has just discarded a transfer of an address to
\* itself, after it had added an edge
C15_Witness ==
    /\ gb.pc = "building"
    /\ gb.last_skip = "self"
    /\ gb.graph.edges # << >>

\* C16: with min_amount set, a transfer below it adds no node and no edge,
\* and causes no recursion and no address-info fetch, so every transfer
\* stored on an edge has an amount >= min_amount.
C16_MinAmountFilters ==
    /\ [](gb.min_amount.set =>
             \A e \in EdgeSet(gb.graph) :
                \A i \in DOMAIN Transfers(gb.graph, e[1], e[2]) :
                    Transfers(gb.graph, e[1], e[2])[i].amount >= gb.min_amount.value)
    /\ [][Discards({"below_min"}) => gb.min_amount.set /\ SameGraphAndCalls(gb', gb)]_vars

\* C16 witness: a build with min_amount set has just discarded a transfer
\* below it, to an address that is not in the graph, and fetched nothing
C16_Witness ==
    /\ gb.pc = "building"
    /\ gb.min_amount.set
    /\ gb.last_skip = "below_min"
    /\ ~has_node(gb.graph, "B")
    /\ "B" \notin gb.info_calls

StartNodes(G) == {n \in Range(G.nodes) : G.attrs[n].is_start}

\* C17: the graph of a build has exactly one node with is_start true, the
\* start address, also when a transfer has the start address as its
\* destination: the start node is not created again.
C17_OneStartNode ==
    gb.pc \in {"building", "done"} =>
        /\ StartNodes(gb.graph) = {gb.start}
        /\ gb.graph.nodes[1] = gb.start
        /\ NoDuplicates(gb.graph.nodes)

\* C17 witness: a finished build of two nodes or more whose graph has a
\* transfer back to the start address
C17_Witness ==
    /\ gb.pc = "done"
    /\ Len(gb.graph.nodes) >= 2
    /\ \E e \in EdgeSet(gb.graph) : e[2] = gb.start /\ e[1] # gb.start
    /\ gb.graph.attrs[gb.start].is_start

\* the timestamps on either side of each end of the range
TimestampSamples == {-1, 0, MaxTimestamp, MaxTimestamp + 1}

\* C18: a transfer whose timestamp is outside [0, 4102444800] is stored with
\* timestamp 0 and the unknown-date marker and raises no error, a timestamp
\* inside the range is stored unchanged; every stored timestamp is in range.
\* (_add_edge is applied to the graph of every point of a build, from the
\* address being expanded.)
C18_TimestampInRange ==
    /\ [](\A e \in EdgeSet(gb.graph) :
            \A i \in DOMAIN Transfers(gb.graph, e[1], e[2]) :
                /\ Transfers(gb.graph, e[1], e[2])[i].timestamp >= 0
                /\ Transfers(gb.graph, e[1], e[2])[i].timestamp <= MaxTimestamp)
    /\ [](CanRead(gb) =>
            \A timestamp \in TimestampSamples,
               target \in Addresses \ {Last(gb.stack).address} :
                LET source == Last(gb.stack).address
                    after == add_edge(gb.graph, source, target, "tx5", 2, timestamp)
                    stored == Last(Transfers(after, source, target))
                IN  /\ stored.txid = "tx5"
                    /\ IF 0 <= timestamp /\ timestamp <= MaxTimestamp
                       THEN stored.timestamp = timestamp /\ stored.date # "Date inconnue"
                       ELSE stored.timestamp = 0 /\ stored.date = "Date inconnue")

\* C18 witness: a finished build stored a transfer whose timestamp was out
\* of range
C18_Witness ==
    /\ gb.pc = "done"
    /\ \E e \in EdgeSet(gb.graph) :
          \E i \in DOMAIN Transfers(gb.graph, e[1], e[2]) :
              /\ Transfers(gb.graph, e[1], e[2])[i].txid = "tx2"
              /\ Transfers(gb.graph, e[1], e[2])[i].timestamp = 0
              /\ Transfers(gb.graph, e[1], e[2])[i].date = "Date inconnue"

\* total_amount when the edge holds several transfers, else the amount of
\* its single transfer
EffectiveAmount(G, e) ==
    IF Len(Transfers(G, e[1], e[2])) >= 2 THEN G.data[e].total_amount
    ELSE Transfers(G, e[1], e[2])[1].amount

RECURSIVE SumOfEdges(_, _)
SumOfEdges(G, es) ==
    IF es = {} THEN 0
    ELSE LET e == CHOOSE x \in es : TRUE
         IN  EffectiveAmount(G, e) + SumOfEdges(G, es \ {e})

\* C19: in the graph a build returns, total_sent of a node is the sum of the
\* effective amounts of its outgoing edges, total_received that of its
\* incoming edges, and in_degree / out_degree count its incoming / outgoing
\* edges.
C19_NodeMetrics ==
    gb.pc = "done" =>
        \A n \in Range(gb.graph.nodes) :
            LET outgoing == {e \in EdgeSet(gb.graph) : e[1] = n}
                incoming == {e \in EdgeSet(gb.graph) : e[2] = n}
                attrs == gb.graph.attrs[n]
            IN  /\ {"in_degree", "out_degree"} \subseteq DOMAIN attrs
                /\ attrs.total_sent = SumOfEdges(gb.graph, outgoing)
                /\ attrs.total_received = SumOfEdges(gb.graph, incoming)
                /\ attrs.out_degree = Cardinality(outgoing)
                /\ attrs.in_degree = Cardinality(incoming)

\* C19 witness: a finished build with an edge of several transfers and
\* another edge
C19_Witness ==
    /\ gb.pc = "done"
    /\ Cardinality(EdgeSet(gb.graph)) >= 2
    /\ \E e \in EdgeSet(gb.graph) :
          /\ Len(Transfers(gb.graph, e[1], e[2])) >= 2
          /\ gb.graph.attrs[e[1]].total_sent > 0

\* C20: a build from a start address for which the DataSource has no
\* transfer returns one node, the start address, no edge, and zero
\* total_sent, total_received, in_degree and out_degree on that node.
C20_IsolatedStart ==
    (gb.pc = "done" /\ gb.records_read = 0) =>
        /\ gb.graph.nodes = << gb.start >>
        /\ DOMAIN gb.graph.attrs = {gb.start}
        /\ gb.graph.edges = << >>
        /\ EdgeSet(gb.graph) = {}
        /\ {"in_degree", "out_degree"} \subseteq DOMAIN gb.graph.attrs[gb.start]
        /\ gb.graph.attrs[gb.start].total_sent = 0
        /\ gb.graph.attrs[gb.start].total_received = 0
        /\ gb.graph.attrs[gb.start].in_degree = 0
        /\ gb.graph.attrs[gb.start].out_degree = 0

\* C20 witness: a finished build that asked for the transfers of the start
\* address and got none
C20_Witness ==
    /\ gb.pc = "done"
    /\ gb.records_read = 0
    /\ gb.tx_calls = << <<gb.start, 0>> >>

(***************************************************************************)
(* Properties of an analysis.                                              *)
(***************************************************************************)
Findings(A, type) == SelectSeq(A.suspicious_patterns, LAMBDA f : f.type = type)

MarkedPotential(A) ==
    {n \in Range(A.graph.nodes) : Get(A.graph.attrs[n], "potential_exchange", FALSE)}

\* C5: every node identify_exchanges marks potential_exchange is in the set it
\* returns, and in the set export_graph_data counts as exchanges.
C5_PotentialExchangeReturned ==
    /\ an.last_call = "identify_exchanges" => MarkedPotential(an) \subseteq an.returned_exchanges
    /\ MarkedPotential(an) \subseteq an.exchanges

\* the graph is the cycle A -> B -> C -> A of single transfers of one amount > 0
EqualAmountCycle(G) ==
    /\ G.nodes = << "A", "B", "C" >>
    /\ G.edges = << <<"A", "B">>, <<"B", "C">>, <<"C", "A">> >>
    /\ Get(G.data[<<"A", "B">>], "amount", 0) > 0
    /\ \A e \in DOMAIN G.data :
          Get(G.data[e], "amount", 0) = Get(G.data[<<"A", "B">>], "amount", 0)

HopTimes(G) == << G.data[<<"A", "B">>].timestamp,
                  G.data[<<"B", "C">>].timestamp,
                  G.data[<<"C", "A">>].timestamp >>

\* C6: after detect_patterns has returned on a cycle A -> B -> C -> A of equal
\* amounts, there is a cycling finding of confidence 0.9 when the timestamps
\* strictly increase along A -> B, B -> C, C -> A, whichever node the cycle
\* enumeration starts from, and none when they strictly decrease.
C6_CyclingByTimeOrder ==
    (/\ an.last_call = "detect_patterns" /\ an.pc = "ready"
     /\ ~an.enumeration_raised /\ EqualAmountCycle(an.graph)) =>
        LET t == HopTimes(an.graph)
        IN  /\ (t[1] < t[2] /\ t[2] < t[3]) =>
                  \E i \in DOMAIN an.returned_patterns :
                      /\ an.returned_patterns[i].type = "cycling"
                      /\ an.returned_patterns[i].confidence = 90
            /\ (t[1] > t[2] /\ t[2] > t[3]) => Findings(an, "cycling") = << >>

\* C7: detect_patterns catches the failure of any of its detectors: the call
\* returns, with the findings of the detectors that did not fail.
C7_DetectorFailureCaught ==
    an.last_call = "detect_patterns" =>
        /\ an.pc = "ready"
        /\ an.returned_patterns = an.suspicious_patterns

\* C11: the targets of a smurfing finding are the destinations of the node's
\* outgoing edges, each listed exactly once, also when an outgoing edge holds
\* several transfers.
C11_SmurfingTargetsDistinct ==
    \A i \in DOMAIN an.suspicious_patterns :
        LET f == an.suspicious_patterns[i]
        IN  f.type = "smurfing" =>
                /\ NoDuplicates(f.targets)
                /\ Range(f.targets) = Range(successors(an.graph, f.address))

\* the sum of the squared deviations of n * x from the sum of xs: the
\* population variance of xs is SquaredDeviations(xs) / n^3
SquaredDeviations(xs) ==
    Sum([i \in DOMAIN xs |-> (Len(xs) * xs[i] - Sum(xs)) * (Len(xs) * xs[i] - Sum(xs))])

\* stddev / mean of xs is below 1 / q (mean > 0)
SpreadBelowOneIn(xs, q) ==
    q * q * SquaredDeviations(xs) < Len(xs) * Sum(xs) * Sum(xs)

LayeringFindingsOf(A, path) ==
    SelectSeq(Findings(A, "layering"), LAMBDA f : f.path = path)

\* C12: for the linear path from each node, when it has 3 nodes or more and
\* 2 per-hop amounts or more of positive mean, there is a layering finding
\* exactly when stddev / mean of the amounts is < 0.2, of confidence 0.8 when
\* it is < 0.1 and 0.6 otherwise; the chain A -> B -> C -> D with amounts
\* (100, 100, 100) has a finding of confidence 0.8 and with (100, 500, 100)
\* it has none.
C12_LayeringByRelativeStd ==
    an.last_call = "detect_patterns" =>
        /\ \A node \in Range(an.graph.nodes) :
              LET path == find_linear_paths(an.graph, node, << >>, << >>, 5)[1]
                  amounts == [i \in 1..(Len(path) - 1) |->
                                 EdgeAmount(an.graph.data[<<path[i], path[i + 1]>>])]
                  found == LayeringFindingsOf(an, path)
              IN  (Len(path) >= 3 /\ Len(amounts) >= 2 /\ Sum(amounts) > 0) =>
                     /\ found # << >> <=> SpreadBelowOneIn(amounts, 5)
                     /\ \A i \in DOMAIN found :
                           found[i].confidence =
                              IF SpreadBelowOneIn(amounts, 10) THEN 80 ELSE 60
        /\ an.graph = ChainGraph(<<100, 100, 100>>) =>
              \E i \in DOMAIN an.suspicious_patterns :
                  /\ an.suspicious_patterns[i].type = "layering"
                  /\ an.suspicious_patterns[i].path = <<"A", "B", "C", "D">>
                  /\ an.suspicious_patterns[i].confidence = 80
        /\ an.graph = ChainGraph(<<100, 500, 100>>) => Findings(an, "layering") = << >>

\* C12 witness: detect_patterns found a layering of confidence 0.6 on the
\* chain with amounts (100, 130, 100)
C12_Witness ==
    /\ an.last_call = "detect_patterns"
    /\ an.graph = ChainGraph(<<100, 130, 100>>)
    /\ \E i \in DOMAIN an.suspicious_patterns :
          /\ an.suspicious_patterns[i].type = "layering"
          /\ an.suspicious_patterns[i].confidence = 60

\* stddev / mean of xs is below p / q (mean > 0)
SpreadBelow(xs, p, q) ==
    /\ Sum(xs) > 0
    /\ q * q * SquaredDeviations(xs) < p * p * Len(xs) * Sum(xs) * Sum(xs)

\* the transfers leaving a node, edge by edge
OutTransfers(G, node) ==
    Concat([i \in DOMAIN out_edges(G, node) |->
               Transfers(G, node, out_edges(G, node)[i][2])])

\* every transfer but the latest is followed by another one less than `gap` later
CloseInTime(txs, gap) ==
    LET times == {txs[i].timestamp : i \in DOMAIN txs}
    IN  \A t \in times :
            \/ \A u \in times : u <= t
            \/ \E u \in times : t < u /\ u - t < gap

SmurfingFindingsOf(A, node) ==
    SelectSeq(Findings(A, "smurfing"), LAMBDA f : f.address = node)

\* C13: for a node with 3 outgoing edges or more and 3 outgoing transfers or
\* more there is a smurfing finding, of confidence 0.7, exactly when the
\* largest gap between timestamp-consecutive transfers is < 3600 s and the
\* coefficient of variation of the amounts is < 0.3; three transfers of 100
\* KAS to three destinations within 10 minutes give a finding, the same
\* transfers spread over 5 hours give none.
C13_SmurfingByGapAndSpread ==
    an.last_call = "detect_patterns" =>
        /\ \A node \in Range(an.graph.nodes) :
              LET txs == OutTransfers(an.graph, node)
                  found == SmurfingFindingsOf(an, node)
              IN  (out_degree(an.graph, node) >= 3 /\ Len(txs) >= 3) =>
                     /\ found # << >> <=>
                          /\ CloseInTime(txs, SmurfingMaxGap)
                          /\ SpreadBelow([i \in DOMAIN txs |-> txs[i].amount], 3, 10)
                     /\ \A i \in DOMAIN found : found[i].confidence = 70
        /\ an.graph = FanGraph(<<100, 100, 100>>, 3) => SmurfingFindingsOf(an, "A") # << >>
        /\ an.graph = FanGraph(<<100, 100, 100>>, 90) => Findings(an, "smurfing") = << >>

\* C13 witness: detect_patterns found the smurfing of the three transfers
\* made within 10 minutes
C13_Witness ==
    /\ an.last_call = "detect_patterns"
    /\ an.graph = FanGraph(<<100, 100, 100>>, 3)
    /\ SmurfingFindingsOf(an, "A") # << >>

FlaggedExchange(A) ==
    {n \in Range(A.graph.nodes) : A.graph.attrs[n].is_exchange}

\* C14: every node flagged is_exchange is in the set identify_exchanges
\* returns, whatever its degrees and volume, is never marked
\* potential_exchange and never gets a potential_exchange finding.
C14_FlaggedExchangeReturned ==
    /\ an.last_call = "identify_exchanges" =>
          /\ FlaggedExchange(an) \subseteq an.returned_exchanges
          /\ FlaggedExchange(an) \subseteq an.exchanges
    /\ FlaggedExchange(an) \cap MarkedPotential(an) = {}
    /\ \A i \in DOMAIN an.suspicious_patterns :
          an.suspicious_patterns[i].type = "potential_exchange"
              => an.suspicious_patterns[i].address \notin FlaggedExchange(an)

\* C14 witness: identify_exchanges returned a flagged node that has more
\* than 10 edges in and out and received more than 10000 KAS
C14_Witness ==
    /\ an.last_call = "identify_exchanges"
    /\ an.graph.nodes[1] = "H"
    /\ "H" \in FlaggedExchange(an) \cap an.returned_exchanges
    /\ in_degree(an.graph, "H") > ExchangeDegree
    /\ out_degree(an.graph, "H") > ExchangeDegree
    /\ an.graph.attrs["H"].total_received > ExchangeVolume

(***************************************************************************)
(* Properties of an export.                                                *)
(***************************************************************************)
Score(A, n) == Get(A.graph.attrs[n], "centrality_score", 0)

\* the largest of the scores of the nodes and the floor 0.01
LargestScore(A) ==
    LET all == {Score(A, n) : n \in Range(A.graph.nodes)} \cup {CentralityFloor(A.graph)}
    IN  CHOOSE m \in all : \A x \in all : x <= m

\* C21: in one export the size of a node is 5 + 45 * centrality_score /
\* max(0.01, largest centrality_score): it lies in [5, 50], it does not
\* decrease with the score, and it is 5 for a node without a score
C21_NodeSizeScaled ==
    an.last_call = "export_graph_data" =>
        /\ Len(an.returned_nodes) = Len(an.graph.nodes)
        /\ \A i \in DOMAIN an.returned_nodes :
              LET n == an.graph.nodes[i]
                  size == an.returned_nodes[i].size
              IN  /\ an.returned_nodes[i].id = n
                  /\ size.den = LargestScore(an)
                  /\ size.num = 5 * size.den + 45 * Score(an, n)
                  /\ 5 * size.den <= size.num
                  /\ size.num <= 50 * size.den
                  /\ "centrality_score" \notin DOMAIN an.graph.attrs[n]
                        => size.num = 5 * size.den
                  /\ \A j \in DOMAIN an.returned_nodes :
                        Score(an, n) <= Score(an, an.graph.nodes[j])
                            => size.num * an.returned_nodes[j].size.den
                                 <= an.returned_nodes[j].size.num * size.den

\* C21 witness: an export after calculate_centrality in which one node has
\* size 50 and another a size strictly between 5 and 50
C21_Witness ==
    /\ an.last_call = "export_graph_data"
    /\ \E i, j \in DOMAIN an.returned_nodes :
          LET big == an.returned_nodes[i].size
              mid == an.returned_nodes[j].size
          IN  /\ "centrality_score" \in DOMAIN an.graph.attrs[an.graph.nodes[i]]
              /\ big.num = 50 * big.den
              /\ 5 * mid.den < mid.num
              /\ mid.num < 50 * mid.den

(***************************************************************************)
(* Properties of a build over a ledger.                                    *)
(***************************************************************************)
\* the addresses joined to those of `near` by transfers of the ledger L
RECURSIVE LedgerReach(_, _)
LedgerReach(L, near) ==
    LET next == near \cup UNION {Range(L[a]) : a \in near}
    IN  IF next = near THEN near ELSE LedgerReach(L, next)

Smaller(a, b) == IF a <= b THEN a ELSE b

\* C26: a build over finite transfer lists, with cycles and converging
\* paths, terminates, and has asked for the transfers of at most
\* min(max_addresses, number of reachable addresses) addresses
C26_Terminates ==
    /\ [](gb.pc \in {"building", "done"} =>
            /\ Len(gb.tx_calls)
                  <= Smaller(gb.max_addresses,
                             Cardinality(LedgerReach(ds.ledger, {gb.start})))
            /\ NoDuplicates([i \in DOMAIN gb.tx_calls |-> gb.tx_calls[i][1]]))
    /\ (gb.pc = "building") ~> (gb.pc = "done")

\* C26 witness: a finished build over a ledger with a cycle through the
\* start address and two paths to C, which asked for the transfers of three
\* addresses and stopped at max_addresses
C26_Witness ==
    /\ gb.pc = "done"
    /\ ds.ledger["A"] = <<"B", "C">>
    /\ ds.ledger["B"] = <<"C">>
    /\ ds.ledger["C"] = <<"D", "A">>
    /\ has_edge(gb.graph, "C", "A")
    /\ Len(gb.tx_calls) = 3
    /\ gb.max_addresses = 3
    /\ Cardinality(LedgerReach(ds.ledger, {"A"})) > 3

\* the addresses joined to `start` by at most k transfers of the ledger L
RECURSIVE WithinHops(_, _, _)
WithinHops(L, start, k) ==
    IF k = 0 THEN {start}
    ELSE LET near == WithinHops(L, start, k - 1)
         IN  near \cup UNION {Range(L[a]) : a \in near}

\* C29: when max_addresses is not reached, the graph of a build holds every
\* address within `depth` transfers of the start address, whatever the
\* order in which the DataSource lists the transfers
C29_AllWithinDepth ==
    (/\ gb.pc = "done"
     /\ ~gb.limit_hit
     /\ Cardinality(gb.visited) < gb.max_addresses)
        => WithinHops(ds.ledger, gb.start, gb.max_depth) \subseteq Range(gb.graph.nodes)

(***************************************************************************)
(* Properties of two builds.                                               *)
(***************************************************************************)
\* the build of B run to its end with nothing else running
RECURSIVE RunToEnd(_, _)
RunToEnd(B, D) ==
    IF B.pc \in {"done", "raised"} THEN B ELSE RunToEnd(LedgerStep(B, D), D)

\* the graph of the request of B when its build runs alone
GraphAlone(B, D) ==
    RunToEnd(LedgerBegin(NewBuilder, D,
                         [start_address |-> B.start, depth |-> B.max_depth,
                          min_amount |-> B.min_amount,
                          max_addresses |-> B.max_addresses]), D).graph

\* what a builder owns: its graph, the visited set and the cache
Owned(B) == <<B.graph, B.visited, B.address_info_cache>>

StoredAs(stored, arrived) ==
    /\ DOMAIN stored = {"txid", "amount", "timestamp", "date"}
    /\ stored.txid = arrived.txid
    /\ stored.amount = arrived.amount
    /\ stored.timestamp = CheckTimestamp(arrived.timestamp).timestamp
    /\ stored.date = CheckTimestamp(arrived.timestamp).date

\* C23: there is one edge for an ordered pair at most and no accepted
\* transfer is lost: after k >= 2 accepted transfers of a pair its edge
\* holds the list of those k transfers in the order of arrival, and none of
\* the fields of a single transfer; after one it holds that transfer
C23_NoTransferLost ==
    [](/\ NoDuplicates(gb.graph.edges)
       /\ Range(gb.graph.edges) = EdgeSet(gb.graph)
       /\ DOMAIN gb.accepted = EdgeSet(gb.graph)
       /\ \A e \in EdgeSet(gb.graph) :
             LET arrived == gb.accepted[e]
                 data == gb.graph.data[e]
             IN  IF Len(arrived) = 1
                 THEN StoredAs(data, arrived[1])
                 ELSE /\ DOMAIN data = {"transactions", "total_amount"}
                      /\ Len(data.transactions) = Len(arrived)
                      /\ \A i \in DOMAIN arrived :
                            StoredAs(data.transactions[i], arrived[i]))

\* C23 witness: the edge of a finished build holds three transfers, each
\* different from the one before it
C23_Witness ==
    /\ gb.pc = "done"
    /\ \E e \in EdgeSet(gb.graph) :
          /\ Len(gb.accepted[e]) = 3
          /\ Len(gb.graph.data[e].transactions) = 3
          /\ gb.accepted[e][1] # gb.accepted[e][2]
          /\ gb.accepted[e][2] # gb.accepted[e][3]

(***************************************************************************)
(* Properties of the layering paths.                                       *)
(***************************************************************************)
\* C24: the path of every layering finding is a simple path of 3 to 6 nodes
\* along edges of the graph, every node of which but the last has exactly
\* one successor; and _find_linear_paths records exactly one path for each
\* start node
C24_LinearPaths ==
    an.last_call = "detect_patterns" =>
        /\ \A i \in DOMAIN an.suspicious_patterns :
              LET f == an.suspicious_patterns[i]
              IN  f.type = "layering" =>
                    /\ NoDuplicates(f.path)
                    /\ Len(f.path) >= 3
                    /\ Len(f.path) <= 6
                    /\ \A k \in 1..(Len(f.path) - 1) :
                          /\ has_edge(an.graph, f.path[k], f.path[k + 1])
                          /\ {e \in EdgeSet(an.graph) : e[1] = f.path[k]}
                                = {<<f.path[k], f.path[k + 1]>>}
        /\ \A node \in Range(an.graph.nodes) :
              LET paths == find_linear_paths(an.graph, node, << >>, << >>, 5)
              IN  /\ Len(paths) = 1
                  /\ paths[1][1] = node

\* C24 witness: detect_patterns found a layering along 6 of the 7 nodes of
\* a ring
C24_Witness ==
    /\ an.last_call = "detect_patterns"
    /\ Len(an.graph.nodes) = 7
    /\ \E i \in DOMAIN an.suspicious_patterns :
          /\ an.suspicious_patterns[i].type = "layering"
          /\ Len(an.suspicious_patterns[i].path) = 6
          /\ has_edge(an.graph, "N07", "N01")

(***************************************************************************)
(* Properties of the sudden-activity findings.                             *)
(***************************************************************************)
\* the inbound and outbound transfers of a node, sorted by timestamp
TimedTransfers(G, node) ==
    LET Tagged(e, tag) ==
            Map(Transfers(G, e[1], e[2]),
                LAMBDA tx : [type |-> tag, timestamp |-> tx.timestamp, amount |-> tx.amount])
    IN  SortByTimestamp(
            Concat(Map(in_edges(G, node), LAMBDA e : Tagged(e, "in")))
            \o Concat(Map(out_edges(G, node), LAMBDA e : Tagged(e, "out"))))

VolumeOf(txs, tag) ==
    Sum(Map(SelectSeq(txs, LAMBDA tx : tx.type = tag), LAMBDA tx : tx.amount))

\* the finding f describes the transfers i..j of txs, a run of 3 or more in
\* which every gap is below half the mean gap of txs, with inbound and
\* outbound volumes > 0 whose quotient min / max is above 0.8
DescribesBurst(f, txs, i, j) ==
    LET run == SubSeq(txs, i, j)
        in_volume == VolumeOf(run, "in")
        out_volume == VolumeOf(run, "out")
        gaps == Len(txs) - 1
        total == Sum([k \in 1..gaps |-> txs[k + 1].timestamp - txs[k].timestamp])
    IN  /\ j - i + 1 >= 3
        /\ f.details.cluster_size = j - i + 1
        /\ f.details.start_time = txs[i].timestamp
        /\ f.details.end_time = txs[j].timestamp
        /\ f.details.in_volume = in_volume
        /\ f.details.out_volume = out_volume
        /\ \A k \in (i + 1)..j :
              2 * gaps * (txs[k].timestamp - txs[k - 1].timestamp) < total
        /\ in_volume > 0
        /\ out_volume > 0
        /\ 10 * Smaller(in_volume, out_volume)
              > 8 * (in_volume + out_volume - Smaller(in_volume, out_volume))

\* C25: every sudden_activity finding of a node, of confidence 0.75,
\* describes a run of 3 or more consecutive transfers of the node (which has
\* transaction_count >= 5 and 5 transfers or more) with gaps below half the
\* mean gap and near-equal inbound and outbound volumes; the runs of the
\* findings of one node are disjoint
C25_SuddenActivityBursts ==
    an.last_call = "detect_patterns" =>
        LET found == Findings(an, "sudden_activity")
        IN  \A a \in DOMAIN found :
              LET f == found[a]
                  txs == TimedTransfers(an.graph, f.address)
              IN  /\ f.confidence = 75
                  /\ an.graph.attrs[f.address].transaction_count.n >= 5
                  /\ Len(txs) >= 5
                  /\ \E i, j \in DOMAIN txs : DescribesBurst(f, txs, i, j)
                  /\ \A b \in DOMAIN found :
                        (a < b /\ found[b].address = f.address) =>
                            \E i, j, k, l \in DOMAIN txs :
                                /\ j < k
                                /\ DescribesBurst(f, txs, i, j)
                                /\ DescribesBurst(found[b], txs, k, l)

\* C25 witness: detect_patterns found two bursts of one node
C25_Witness ==
    /\ an.last_call = "detect_patterns"
    /\ Len(Findings(an, "sudden_activity")) = 2
    /\ Findings(an, "sudden_activity")[1].address = Findings(an, "sudden_activity")[2].address
    /\ Findings(an, "sudden_activity")[1].details.end_time
          < Findings(an, "sudden_activity")[2].details.start_time

(***************************************************************************)
(* Conservation in the node metrics of a built graph.                      *)
(***************************************************************************)
\* the sum over all nodes of G of their attribute `metric`
MetricTotal(G, metric) == Sum(Map(G.nodes, LAMBDA n : G.attrs[n][metric]))

Extends(A, B) ==
    LET before == Findings(B, "potential_exchange")
        after == Findings(A, "potential_exchange")
    IN  Len(after) >= Len(before) /\ SubSeq(after, 1, Len(before)) = before

\* one potential_exchange finding for each node marked potential_exchange
OneFindingPerMarkedNode ==
    \A n \in DOMAIN an.graph.attrs :
        Get(an.graph.attrs[n], "potential_exchange", FALSE) =>
            Len(SelectSeq(Findings(an, "potential_exchange"),
                          LAMBDA f : f.address = n)) = 1

\* C28: after any calls of detect_patterns and identify_exchanges on one
\* analyzer the findings hold exactly one potential_exchange finding for
\* each node marked potential_exchange, and a call leaves the
\* potential_exchange findings already in the list as they were
C28_OneFindingPerMarkedNode ==
    []OneFindingPerMarkedNode /\ [][Extends(an', an)]_vars

====
